---- MODULE Spec2Model ----
(***************************************************************************)
(* forge-rsx: the rsx! / rsx_muncher! / parse_attr! macros of              *)
(* src/rules/mod.rs and get_char of src/lib.rs.                            *)
(* In the macros, strings are sequences of one-character strings, so       *)
(* that prefixes, containment, trimming and replacement are computed.       *)
(* A macro invocation is an operation: its token input is drawn from a     *)
(* bounded set and its String result is recorded.                          *)
(***************************************************************************)
EXTENDS Integers, Sequences, FiniteSets, TLC

VARIABLES call, result

vars == <<call, result>>

(* ------------------------------ bounds --------------------------------- *)

\* longest body (number of items) of the freely combined bodies
MaxItems == 3

\* longest collection a for loop iterates
MaxLoop == 2

\* deepest $d a direct rsx_muncher! invocation starts from, and the depth
\* of the nested chain element
MaxDepth == 2

\* longest string (in characters) get_char is given
MaxStr == 3

(* ------------------------------ characters ----------------------------- *)

DQ == "\""

BS == "\\"

NL == "\n"

SP == " "

(* ------------------------------ str methods ---------------------------- *)

\* str::starts_with
starts_with(s, p) ==
    Len(s) >= Len(p) /\ SubSeq(s, 1, Len(p)) = p

\* str::contains
contains(s, p) ==
    \E i \in 1..(Len(s) - Len(p) + 1) : SubSeq(s, i, i + Len(p) - 1) = p

RECURSIVE trim_start_matches(_, _)
trim_start_matches(s, c) ==
    IF s # <<>> /\ Head(s) = c THEN trim_start_matches(Tail(s), c) ELSE s

RECURSIVE trim_end_matches(_, _)
trim_end_matches(s, c) ==
    IF s # <<>> /\ s[Len(s)] = c
    THEN trim_end_matches(SubSeq(s, 1, Len(s) - 1), c)
    ELSE s

\* str::trim_matches(char): strips every leading and trailing occurrence
trim_matches(s, c) == trim_end_matches(trim_start_matches(s, c), c)

\* str::replace: non-overlapping matches, left to right
RECURSIVE replace(_, _, _)
replace(s, from, to) ==
    IF s = <<>> THEN <<>>
    ELSE IF starts_with(s, from)
         THEN to \o replace(SubSeq(s, Len(from) + 1, Len(s)), from, to)
         ELSE <<Head(s)>> \o replace(Tail(s), from, to)

\* str::repeat
RECURSIVE repeat(_, _)
repeat(s, n) == IF n = 0 THEN <<>> ELSE s \o repeat(s, n - 1)

(* ------------------------------ values --------------------------------- *)

\* An expression of the template: a string, a bool, or the loop variable.
StrV(s) == [t |-> "str", s |-> s]

BoolV(b) == [t |-> "bool", b |-> b]

VarV == [t |-> "var"]

\* evaluation of an expression where the loop variable is bound to env
Eval(e, env) == IF e.t = "var" THEN env ELSE e

\* format!("{}", v): Display of a &str / String is the text, of a bool
\* "true" / "false"
Display(v) ==
    IF v.t = "bool"
    THEN (IF v.b THEN <<"t", "r", "u", "e">> ELSE <<"f", "a", "l", "s", "e">>)
    ELSE v.s

\* stringify!($attr_name): an identifier gives its text, a string literal
\* gives its source text, quotes included
stringify(name) ==
    IF name.lit THEN <<DQ>> \o name.text \o <<DQ>> ELSE name.text

(* ------------------------------ parse_attr! ---------------------------- *)

\* ( ($key:expr, $val:expr) ) => Some(($key, $val)); ( $other:tt ) => None
parse_attr(tt) ==
    IF tt.t = "pair" THEN [some |-> TRUE, k |-> tt.k, v |-> tt.v]
    ELSE [some |-> FALSE]

(* ------------------------------ termination rule ----------------------- *)

\* attr_push with the quoting of the framework keys tried before the
\* boolean check
attr_push_quote_first(tt, env) ==
    LET p == parse_attr(tt) IN
    IF ~p.some THEN <<>>
    ELSE
      LET key == trim_matches(p.k, DQ)
          val_str == Display(Eval(p.v, env))
      IN IF \/ starts_with(key, <<":">>)
            \/ starts_with(key, <<"@">>)
            \/ starts_with(key, <<"x", "-">>)
            \/ starts_with(key, <<"h", "x", "-">>)
         THEN <<SP>> \o key \o <<"=", "'">>
              \o replace(val_str, <<BS, DQ>>, <<DQ>>) \o <<"'">>
         ELSE IF val_str = <<"t", "r", "u", "e">> THEN <<SP>> \o key
         ELSE IF val_str = <<"f", "a", "l", "s", "e">> THEN <<>>
         ELSE IF contains(val_str, <<DQ>>)
         THEN <<SP>> \o key \o <<"=", "'">>
              \o replace(val_str, <<BS, DQ>>, <<DQ>>) \o <<"'">>
         ELSE <<SP>> \o key \o <<"=", DQ>> \o val_str \o <<DQ>>

\* attr_push without the replace of \" in a single-quoted value
attr_push_keep_escapes(tt, env) ==
    LET p == parse_attr(tt) IN
    IF ~p.some THEN <<>>
    ELSE
      LET key == trim_matches(p.k, DQ)
          val_str == Display(Eval(p.v, env))
      IN IF val_str = <<"t", "r", "u", "e">> THEN <<SP>> \o key
         ELSE IF val_str # <<"f", "a", "l", "s", "e">>
         THEN IF \/ starts_with(key, <<":">>)
                 \/ starts_with(key, <<"@">>)
                 \/ starts_with(key, <<"x", "-">>)
                 \/ starts_with(key, <<"h", "x", "-">>)
                 \/ contains(val_str, <<DQ>>)
              THEN <<SP>> \o key \o <<"=", "'">> \o val_str \o <<"'">>
              ELSE <<SP>> \o key \o <<"=", DQ>> \o val_str \o <<DQ>>
         ELSE <<>>

\* what one collected attribute pushes onto attr_str
attr_push(tt, env) ==
    LET p == parse_attr(tt) IN
    IF ~p.some THEN <<>>
    ELSE
      LET key == trim_matches(p.k, DQ)
          val_str == Display(Eval(p.v, env))
      IN IF val_str = <<"t", "r", "u", "e">> THEN <<SP>> \o key
         ELSE IF val_str # <<"f", "a", "l", "s", "e">>
         THEN IF \/ starts_with(key, <<":">>)
                 \/ starts_with(key, <<"@">>)
                 \/ starts_with(key, <<"x", "-">>)
                 \/ starts_with(key, <<"h", "x", "-">>)
                 \/ contains(val_str, <<DQ>>)
                 \/ contains(val_str, <<BS, DQ>>)
              THEN LET clean_v == replace(val_str, <<BS, DQ>>, <<DQ>>)
                   IN <<SP>> \o key \o <<"=", "'">> \o clean_v \o <<"'">>
              ELSE <<SP>> \o key \o <<"=", DQ>> \o val_str \o <<DQ>>
         ELSE <<>>

\* let mut attr_str = String::new(); $( ... )*
RECURSIVE attr_str(_, _)
attr_str(attrs, env) ==
    IF attrs = <<>> THEN <<>>
    ELSE attr_push(Head(attrs), env) \o attr_str(Tail(attrs), env)

\* match $m { 2 => "  ".repeat($d), 4 => "    ".repeat($d), _ => String::new() }
indent(m, d) ==
    CASE m = 2 -> repeat(<<SP, SP>>, d)
      [] m = 4 -> repeat(<<SP, SP, SP, SP>>, d)
      [] OTHER -> <<>>

\* let nl = if $m > 0 { "\n" } else { "" };
nl(m) == IF m > 0 THEN <<NL>> ELSE <<>>

\* one pass of the $children repetition on inner_content
push_child(acc, child, m) ==
    (IF acc # <<>> THEN acc \o nl(m) ELSE acc) \o child

\* let mut inner_content = String::new(); $( ... )*
RECURSIVE inner_content(_, _, _)
inner_content(acc, children, m) ==
    IF children = <<>> THEN acc
    ELSE inner_content(push_child(acc, Head(children), m), Tail(children), m)

VoidTags ==
    { <<"a", "r", "e", "a">>, <<"b", "a", "s", "e">>, <<"b", "r">>,
      <<"c", "o", "l">>, <<"e", "m", "b", "e", "d">>, <<"h", "r">>,
      <<"i", "m", "g">>, <<"i", "n", "p", "u", "t">>, <<"l", "i", "n", "k">>,
      <<"m", "e", "t", "a">>, <<"s", "o", "u", "r", "c", "e">>,
      <<"t", "r", "a", "c", "k">>, <<"w", "b", "r">> }

\* is_void with the last alternative of the pattern lost
is_void_without_wbr(tag_name) == tag_name \in VoidTags \ {<<"w", "b", "r">>}

\* matches!(tag_name, "area" | "base" | ... | "wbr")
is_void(tag_name) == tag_name \in VoidTags

\* termination without the inner_content.is_empty() arm
termination_always_multiline(m, d, tag, attrs, children, env) ==
    LET as == attr_str(attrs, env)
        ind == indent(m, d)
        inner == inner_content(<<>>, children, m)
    IN IF is_void(tag)
       THEN ind \o <<"<">> \o tag \o as \o <<">">>
       ELSE ind \o <<"<">> \o tag \o as \o <<">">> \o nl(m) \o inner \o nl(m)
            \o ind \o <<"<", "/">> \o tag \o <<">">>

\* rule 1: the final string of an element
termination(m, d, tag, attrs, children, env) ==
    LET as == attr_str(attrs, env)
        ind == indent(m, d)
        inner == inner_content(<<>>, children, m)
    IN IF is_void(tag)
       THEN ind \o <<"<">> \o tag \o as \o <<">">>
       ELSE IF inner = <<>>
       THEN ind \o <<"<">> \o tag \o as \o <<">", "<", "/">> \o tag \o <<">">>
       ELSE ind \o <<"<">> \o tag \o as \o <<">">> \o nl(m) \o inner \o nl(m)
            \o ind \o <<"<", "/">> \o tag \o <<">">>

(* ------------------------------ accumulating rules --------------------- *)

\* push_attr with the new attribute put before the collected ones
push_attr_front(attrs, name, value) ==
    <<[t |-> "pair", k |-> stringify(name), v |-> value]>> \o attrs

\* rules 2a-2d: [$($attrs)* (stringify!($attr_name), $attr_value)]
push_attr(attrs, name, value) ==
    Append(attrs, [t |-> "pair", k |-> stringify(name), v |-> value])

\* rules 5 and 6: format!("{}{}", match $m {...$d + 1...}, $text)
text_child(m, d, text, env) == indent(m, d + 1) \o Display(Eval(text, env))

\* child_depth with the + 1 lost
child_depth_same(d) == d

\* the depth a nested element or a loop body is rendered at: $d + 1
child_depth(d) == d + 1

\* push_iter without the separator between iterations
push_iter_no_separator(s, elem, m) == s \o elem

\* one pass of the for loop of rule 4 on s
push_iter(s, elem, m) == (IF s # <<>> THEN s \o nl(m) ELSE s) \o elem

RECURSIVE rsx_muncher(_, _, _, _, _, _, _)
RECURSIVE for_loop(_, _, _, _, _, _)

\* rule 4: for $var in $collection { ... s.push_str(&rsx_muncher!(...)) }
for_loop(m, d, it, ic, coll, s) ==
    IF coll = <<>> THEN s
    ELSE for_loop(m, d, it, ic, Tail(coll),
                  push_iter(s, rsx_muncher(m, child_depth(d), it, <<>>, <<>>,
                                           ic, Head(coll)), m))

\* the rules of rsx_muncher!, tried in order on the remaining tokens rest;
\* env is the value the enclosing loop binds its variable to.
\* An attr item that is not last stands for `name : value ,` (rules 2a, 2b),
\* a last one for `name : value` (rules 2c, 2d).
rsx_muncher(m, d, tag, attrs, children, rest, env) ==
    IF rest = <<>> THEN termination(m, d, tag, attrs, children, env)
    ELSE
      LET h == Head(rest)
          r == Tail(rest)
      IN CASE h.k = "attr" ->
                rsx_muncher(m, d, tag, push_attr(attrs, h.name, h.value),
                            children, r, env)
           [] h.k = "elem" ->
                rsx_muncher(m, d, tag, attrs,
                            Append(children,
                                   rsx_muncher(m, child_depth(d), h.tag, <<>>,
                                               <<>>, h.body, env)),
                            r, env)
           [] h.k = "for" ->
                rsx_muncher(m, d, tag, attrs,
                            Append(children,
                                   for_loop(m, d, h.it, h.ic, h.coll, <<>>)),
                            r, env)
           [] h.k = "expr" ->
                rsx_muncher(m, d, tag, attrs,
                            Append(children, text_child(m, d, h.e, env)),
                            r, env)
           [] h.k = "lit" ->
                rsx_muncher(m, d, tag, attrs,
                            Append(children, text_child(m, d, StrV(h.text), env)),
                            r, env)
           [] h.k = "comma" ->
                rsx_muncher(m, d, tag, attrs, children, r, env)

(* ------------------------------ rsx! ----------------------------------- *)

DOCTYPE ==
    <<"<", "!", "D", "O", "C", "T", "Y", "P", "E", " ", "h", "t", "m", "l", ">">>

NoEnv == StrV(<<>>)

\* rsx with the btfy0 arm passing the mode of btfy2
rsx_btfy0_indented(style, tag, content) ==
    CASE style = "lined" -> rsx_muncher(0, 0, tag, <<>>, <<>>, content, NoEnv)
      [] style = "btfy0" -> rsx_muncher(2, 0, tag, <<>>, <<>>, content, NoEnv)
      [] style = "btfy2" -> rsx_muncher(2, 0, tag, <<>>, <<>>, content, NoEnv)
      [] style = "btfy4" -> rsx_muncher(4, 0, tag, <<>>, <<>>, content, NoEnv)

\* the lined / btfy0 / btfy2 / btfy4 arms
rsx(style, tag, content) ==
    CASE style = "lined" -> rsx_muncher(0, 0, tag, <<>>, <<>>, content, NoEnv)
      [] style = "btfy0" -> rsx_muncher(1, 0, tag, <<>>, <<>>, content, NoEnv)
      [] style = "btfy2" -> rsx_muncher(2, 0, tag, <<>>, <<>>, content, NoEnv)
      [] style = "btfy4" -> rsx_muncher(4, 0, tag, <<>>, <<>>, content, NoEnv)

\* rsx_doctype with the newline of the mode in place of the literal one
rsx_doctype_mode_newline(style, tag, content) ==
    DOCTYPE \o (IF style = "lined" THEN <<>> ELSE <<NL>>)
    \o rsx(style, tag, content)

\* the doctype_html arm: format!("<!DOCTYPE html>\n{}", rsx!($style, ...))
rsx_doctype(style, tag, content) ==
    DOCTYPE \o <<NL>> \o rsx(style, tag, content)

(* ------------------------------ get_char ------------------------------- *)
(* A &str is its UTF-8 bytes; a char is its code point.                    *)

\* char::to_string: the UTF-8 encoding of a code point
utf8(cp) ==
    IF cp < 128 THEN <<cp>>
    ELSE IF cp < 2048 THEN <<192 + (cp \div 64), 128 + (cp % 64)>>
    ELSE IF cp < 65536
    THEN <<224 + (cp \div 4096), 128 + ((cp \div 64) % 64), 128 + (cp % 64)>>
    ELSE <<240 + (cp \div 262144), 128 + ((cp \div 4096) % 64),
           128 + ((cp \div 64) % 64), 128 + (cp % 64)>>

\* the number of bytes of the character a leading byte starts
utf8_width(b) ==
    IF b < 128 THEN 1 ELSE IF b < 224 THEN 2 ELSE IF b < 240 THEN 3 ELSE 4

\* the code point of one encoded character
decode(bs) ==
    CASE Len(bs) = 1 -> bs[1]
      [] Len(bs) = 2 -> (bs[1] - 192) * 64 + (bs[2] - 128)
      [] Len(bs) = 3 ->
           (bs[1] - 224) * 4096 + (bs[2] - 128) * 64 + (bs[3] - 128)
      [] Len(bs) = 4 ->
           (bs[1] - 240) * 262144 + (bs[2] - 128) * 4096
           + (bs[3] - 128) * 64 + (bs[4] - 128)

\* str::chars: the characters of a string, in order
RECURSIVE chars(_)
chars(s) ==
    IF s = <<>> THEN <<>>
    ELSE LET w == utf8_width(Head(s))
         IN <<decode(SubSeq(s, 1, w))>> \o chars(SubSeq(s, w + 1, Len(s)))

\* Iterator::nth, 0-based: Some(item) or None
nth(it, k) ==
    IF k < Len(it) THEN [some |-> TRUE, v |-> it[k + 1]] ELSE [some |-> FALSE]

\* what a call that panics leaves in place of its String
Panic == <<-1>>

\* Option::unwrap().to_string()
unwrap_to_string(o) == IF o.some THEN utf8(o.v) ELSE Panic

\* get_char comparing the index with the byte length s.len()
get_char_byte_len(s, index) ==
    IF index = 0 \/ index > Len(s) THEN <<>>
    ELSE LET char_index == index - 1
         IN unwrap_to_string(nth(chars(s), char_index))

\* pub fn get_char(s: &str, index: usize) -> String
get_char(s, index) ==
    IF index = 0 \/ index > Len(chars(s)) THEN <<>>
    ELSE LET char_index == index - 1
         IN unwrap_to_string(nth(chars(s), char_index))

(* ------------------------------ inputs --------------------------------- *)

\* body items (the token shapes the accumulating rules match)
Lit(text) == [k |-> "lit", text |-> text]

Braced(e) == [k |-> "expr", e |-> e]

Attr(name, value) == [k |-> "attr", name |-> name, value |-> value]

Comma == [k |-> "comma"]

Elem(tag, body) == [k |-> "elem", tag |-> tag, body |-> body]

For(coll, it, ic) == [k |-> "for", coll |-> coll, it |-> it, ic |-> ic]

Ident(text) == [lit |-> FALSE, text |-> text]

Literal(text) == [lit |-> TRUE, text |-> text]

UL == <<"u", "l">>

LI == <<"l", "i">>

BR == <<"b", "r">>

LitE == Lit(<<>>)

LitA == Lit(<<"a">>)

AttrV == Attr(Ident(<<"i", "d">>), StrV(<<"v">>))

AttrW == Attr(Ident(<<"i", "d">>), StrV(<<"w">>))

\* li { , {"b"} br { "a" } "k": "w" }
Mixed ==
    Elem(LI, <<Comma, Braced(StrV(<<"b">>)), Elem(BR, <<LitA>>),
               Attr(Literal(<<"k">>), StrV(<<"w">>))>>)

\* li { "a" li { "a" ... } }, n levels below the first
RECURSIVE Chain(_)
Chain(n) ==
    IF n = 0 THEN Elem(LI, <<LitA>>) ELSE Elem(LI, <<LitA, Chain(n - 1)>>)

CoreItems == {LitE, LitA, AttrV, AttrW, Mixed, Chain(MaxDepth)}

\* every sequence over S of length at most n
RECURSIVE SeqsUpTo(_, _)
SeqsUpTo(S, n) ==
    IF n = 0 THEN {<<>>}
    ELSE LET shorter == SeqsUpTo(S, n - 1)
         IN shorter \cup {Append(q, x) : q \in shorter, x \in S}

CoreBodies == SeqsUpTo(CoreItems, MaxItems)

\* the collections a loop iterates
LoopValues == {StrV(<<>>), StrV(<<"x">>)}

Collections == SeqsUpTo(LoopValues, MaxLoop)

\* loop bodies: li { {v} }, li { id: v, li { {v} } }, br { {v} }
Templates ==
    { [it |-> LI, ic |-> <<Braced(VarV)>>],
      [it |-> LI, ic |-> <<Attr(Ident(<<"i", "d">>), VarV),
                           Elem(LI, <<Braced(VarV)>>)>>],
      [it |-> BR, ic |-> <<Braced(VarV)>>] }

Around == {<<>>, <<LitA>>, <<LitE>>}

LoopBodies ==
    { pre \o <<For(c, t.it, t.ic)>> \o post :
        pre \in Around, post \in Around, c \in Collections, t \in Templates }

\* attribute names and values of the attribute-only bodies
AttrNames ==
    { Ident(<<"i", "d">>), Literal(<<"k">>), Literal(<<"x", "-", "a">>),
      Literal(<<":", "c">>), Literal(<<"@", "e">>),
      Literal(<<"h", "x", "-", "g">>), Literal(<<"x", "a">>),
      Literal(<<"h", "x">>) }

AttrValues ==
    { BoolV(TRUE), BoolV(FALSE), StrV(<<"t", "r", "u", "e">>),
      StrV(<<"f", "a", "l", "s", "e">>), StrV(<<>>), StrV(<<"a">>),
      StrV(<<"T", "r", "u", "e">>), StrV(<<DQ>>), StrV(<<BS, DQ>>),
      StrV(<<"a", DQ, "b">>), StrV(<<BS, DQ, "a", BS, DQ, DQ>>),
      StrV(<<BS, "a">>) }

AttrBodies ==
    { <<Attr(n, v)>> : n \in AttrNames, v \in AttrValues }
    \cup { <<Attr(Literal(<<"x", "-", "a">>), v), LitA, AttrV>> :
             v \in AttrValues }

Contents == CoreBodies \cup LoopBodies \cup AttrBodies

P == <<"p">>

\* the documented examples `p { }` and `p { "..." }`
DocExamples ==
    { [tag |-> P, content |-> <<>>],
      [tag |-> P, content |-> <<Lit(<<".", ".", ".">>)>>] }

\* the root elements an rsx! invocation is given
Programs == {[tag |-> UL, content |-> c] : c \in Contents} \cup DocExamples

Styles == {"lined", "btfy0", "btfy2", "btfy4"}

\* tag names of the direct invocations: the void ones and some others
Tags == VoidTags \cup {UL, LI, <<"p">>, <<"b">>, <<"h", "r", "e", "f">>}

\* the accumulators and remaining tokens a direct rsx_muncher! call passes
Pair(k, v) == [t |-> "pair", k |-> k, v |-> v]

Other == [t |-> "other"]

DirectArgs ==
    { [attrs |-> a, children |-> c, rest |-> <<>>] :
        a \in {<<>>, <<Pair(<<"h", "r", "e", "f">>, StrV(<<"u">>))>>},
        c \in {<<>>, <<<<>>>>, <<<<"a">>>>, <<<<>>, <<"a">>>>,
               <<<<"a">>, <<>>>>, <<<<"a">>, <<"b">>>>} }
    \cup
    { [attrs |-> <<Other, Pair(<<"i", "d">>, BoolV(TRUE))>>,
       children |-> <<<<"a">>>>, rest |-> r] :
        r \in {<<>>, <<LitA>>, <<AttrV, Elem(LI, <<>>)>>} }

\* the characters of the strings get_char is given: 'H', 'e' with an acute
\* accent, the euro sign and the apple of the examples (1 to 4 bytes)
GetCharChars == {72, 233, 8364, 127822}

\* a string written with the characters cs
RECURSIVE str_of(_)
str_of(cs) == IF cs = <<>> THEN <<>> ELSE utf8(Head(cs)) \o str_of(Tail(cs))

\* "Hello, forge-rsx!"
DocString ==
    <<72, 101, 108, 108, 111, 44, 32, 102, 111, 114, 103, 101, 45, 114, 115,
      120, 33>>

\* the strings and indexes of the get_char calls: every short string with
\* the indexes around its length, and the documented calls
GetCharArgs ==
    { [written |-> cs, index |-> n] :
        cs \in SeqsUpTo(GetCharChars, MaxStr), n \in 0..(MaxStr + 2) }
    \cup { [written |-> DocString, index |-> n] : n \in {0, 1, 50} }

(* ------------------------------ state machine -------------------------- *)

\* One behaviour is one macro invocation: call records the invocation
\* (op = "none" before it) and result the String it evaluates to.
Init ==
    /\ call = [op |-> "none"]
    /\ result = <<>>

\* the record of an rsx! invocation
RsxCall(style, doctype, tag, content) ==
    [op |-> "rsx", style |-> style, doctype |-> doctype, tag |-> tag,
     content |-> content]

\* rsx!(style, doctype_html tag { content })
RsxDoctype ==
    \E style \in Styles, prog \in Programs :
        /\ call.op = "none"
        /\ call' = RsxCall(style, TRUE, prog.tag, prog.content)
        /\ result' = rsx_doctype(style, prog.tag, prog.content)

\* rsx!(lined, tag { content })
RsxLined ==
    \E prog \in Programs :
        /\ call.op = "none"
        /\ call' = RsxCall("lined", FALSE, prog.tag, prog.content)
        /\ result' = rsx("lined", prog.tag, prog.content)

\* rsx!(btfy0, tag { content })
RsxBtfy0 ==
    \E prog \in Programs :
        /\ call.op = "none"
        /\ call' = RsxCall("btfy0", FALSE, prog.tag, prog.content)
        /\ result' = rsx("btfy0", prog.tag, prog.content)

\* rsx!(btfy2, tag { content })
RsxBtfy2 ==
    \E prog \in Programs :
        /\ call.op = "none"
        /\ call' = RsxCall("btfy2", FALSE, prog.tag, prog.content)
        /\ result' = rsx("btfy2", prog.tag, prog.content)

\* rsx!(btfy4, tag { content })
RsxBtfy4 ==
    \E prog \in Programs :
        /\ call.op = "none"
        /\ call' = RsxCall("btfy4", FALSE, prog.tag, prog.content)
        /\ result' = rsx("btfy4", prog.tag, prog.content)

\* rsx_muncher!(m, d, tag, [attrs], [children], rest)
RsxMuncher ==
    \E m \in {0, 1, 2, 4}, d \in 0..MaxDepth, tag \in Tags, a \in DirectArgs :
        /\ call.op = "none"
        /\ call' = [op |-> "rsx_muncher", m |-> m, d |-> d, tag |-> tag,
                    attrs |-> a.attrs, children |-> a.children,
                    rest |-> a.rest]
        /\ result' = rsx_muncher(m, d, tag, a.attrs, a.children, a.rest, NoEnv)

\* get_char(s, index); written is the characters s was written with
GetChar ==
    \E a \in GetCharArgs :
        /\ call.op = "none"
        /\ call' = [op |-> "get_char", s |-> str_of(a.written),
                    written |-> a.written, index |-> a.index]
        /\ result' = get_char(str_of(a.written), a.index)

Next ==
    \/ RsxDoctype
    \/ RsxLined
    \/ RsxBtfy0
    \/ RsxBtfy2
    \/ RsxBtfy4
    \/ RsxMuncher
    \/ GetChar

Spec == Init /\ [][Next]_vars

(* ------------------------------ reading an invocation ------------------ *)
(* What the properties below say about an invocation is written from the   *)
(* rendering contract, on the recorded call and its result.                *)

\* an invocation without the doctype_html modifier
Plain(c) == c.op = "rsx_muncher" \/ (c.op = "rsx" /\ ~c.doctype)

RootM(c) ==
    IF c.op = "rsx"
    THEN CASE c.style = "lined" -> 0 [] c.style = "btfy0" -> 1
           [] c.style = "btfy2" -> 2 [] c.style = "btfy4" -> 4
    ELSE c.m

RootD(c) == IF c.op = "rsx" THEN 0 ELSE c.d

RootBody(c) == IF c.op = "rsx" THEN c.content ELSE c.rest

\* the separator of a mode: none in lined, a newline otherwise
Sep(m) == IF m = 0 THEN <<>> ELSE <<NL>>

Spaces(n) == [i \in 1..n |-> SP]

\* the indentation prefix of depth d: width * d spaces, width 2 or 4
Pad(m, d) == IF m \in {2, 4} THEN Spaces(m * d) ELSE <<>>

RECURSIVE Concat(_)
Concat(ss) == IF ss = <<>> THEN <<>> ELSE Head(ss) \o Concat(Tail(ss))

\* ss joined by sep: one sep between every two consecutive strings
RECURSIVE Join(_, _)
Join(ss, sep) ==
    IF ss = <<>> THEN <<>>
    ELSE IF Len(ss) = 1 THEN ss[1]
    ELSE ss[1] \o sep \o Join(Tail(ss), sep)

IsPrefix(p, s) == Len(p) <= Len(s) /\ \A i \in 1..Len(p) : s[i] = p[i]

IsSuffix(p, s) ==
    Len(p) <= Len(s) /\ \A i \in 1..Len(p) : s[Len(s) - Len(p) + i] = p[i]

Occurs(p, s) ==
    \E i \in 0..(Len(s) - Len(p)) : \A j \in 1..Len(p) : s[i + j] = p[j]

IsChild(item) == item.k \in {"lit", "expr", "elem", "for"}

IsAttr(item) == item.k = "attr"

\* the string a declared child contributes to an element of depth d
ChildStr(m, d, item, env) ==
    CASE item.k = "lit" -> Pad(m, d + 1) \o item.text
      [] item.k = "expr" -> Pad(m, d + 1) \o Display(Eval(item.e, env))
      [] item.k = "elem" ->
           rsx_muncher(m, d + 1, item.tag, <<>>, <<>>, item.body, env)
      [] item.k = "for" -> for_loop(m, d, item.it, item.ic, item.coll, <<>>)

\* the declared children of a body, rendered, in declared order
ChildStrs(m, d, body, env) ==
    LET kids == SelectSeq(body, IsChild)
    IN [i \in 1..Len(kids) |-> ChildStr(m, d, kids[i], env)]

\* every child of the root element: those passed in, then those declared
RootChildren(c) ==
    (IF c.op = "rsx" THEN <<>> ELSE c.children)
    \o ChildStrs(RootM(c), RootD(c), RootBody(c), NoEnv)

\* the declared attributes of a body, in declared order: key, rendered
\* value, and the token the muncher collects for it
DeclaredAttrs(body, env) ==
    LET as == SelectSeq(body, IsAttr)
    IN [i \in 1..Len(as) |->
          [key |-> as[i].name.text, val |-> Display(Eval(as[i].value, env)),
           tt |-> Pair(stringify(as[i].name), Eval(as[i].value, env))]]

IsPair(tt) == tt.t = "pair"

PassedAttrs(c) ==
    IF c.op = "rsx" THEN <<>>
    ELSE LET ps == SelectSeq(c.attrs, IsPair)
         IN [i \in 1..Len(ps) |->
               [key |-> ps[i].k, val |-> Display(ps[i].v), tt |-> ps[i]]]

\* every attribute of the root element: those passed in, then those declared
RootAttrs(c) == PassedAttrs(c) \o DeclaredAttrs(RootBody(c), NoEnv)

TRUE_S == <<"t", "r", "u", "e">>

FALSE_S == <<"f", "a", "l", "s", "e">>

\* a key that starts with ':', '@', 'x-' or 'hx-'
Special(key) ==
    \/ Len(key) >= 1 /\ key[1] \in {":", "@"}
    \/ Len(key) >= 2 /\ key[1] = "x" /\ key[2] = "-"
    \/ Len(key) >= 3 /\ key[1] = "h" /\ key[2] = "x" /\ key[3] = "-"

HasQuote(val) == \E i \in 1..Len(val) : val[i] = DQ

\* val with every backslash-escaped double quote replaced by a double quote
RECURSIVE Unescape(_)
Unescape(val) ==
    IF Len(val) >= 2 /\ val[1] = BS /\ val[2] = DQ
    THEN <<DQ>> \o Unescape(SubSeq(val, 3, Len(val)))
    ELSE IF val = <<>> THEN <<>>
    ELSE <<val[1]>> \o Unescape(Tail(val))

\* the boolean rule, where it applies
BoolFragment(a) == IF a.val = TRUE_S THEN <<SP>> \o a.key ELSE <<>>

\* the quoting rule, where it applies
QuoteFragment(a) ==
    IF Special(a.key) \/ HasQuote(a.val)
    THEN <<SP>> \o a.key \o <<"=", "'">> \o Unescape(a.val) \o <<"'">>
    ELSE <<SP>> \o a.key \o <<"=", DQ>> \o a.val \o <<DQ>>

IsBool(a) == a.val \in {TRUE_S, FALSE_S}

\* the fragment of an attribute by both rules
Fragment(a) == IF IsBool(a) THEN BoolFragment(a) ELSE QuoteFragment(a)

\* the attribute text of the root element
RootAttrText(c) ==
    LET as == RootAttrs(c) IN Concat([i \in 1..Len(as) |-> Fragment(as[i])])

RootPad(c) == Pad(RootM(c), RootD(c))

OpenTag(c) == <<"<">> \o c.tag \o RootAttrText(c) \o <<">">>

CloseTag(c) == <<"<", "/">> \o c.tag \o <<">">>

\* the void tags, as the contract lists them
VoidSet ==
    { <<"a", "r", "e", "a">>, <<"b", "a", "s", "e">>, <<"b", "r">>,
      <<"c", "o", "l">>, <<"e", "m", "b", "e", "d">>, <<"h", "r">>,
      <<"i", "m", "g">>, <<"i", "n", "p", "u", "t">>, <<"l", "i", "n", "k">>,
      <<"m", "e", "t", "a">>, <<"s", "o", "u", "r", "c", "e">>,
      <<"t", "r", "a", "c", "k">>, <<"w", "b", "r">> }

HasChildren(c) == RootChildren(c) # <<>>

(* ------------------------------ C1 ------------------------------------- *)

\* C1 (as stated): a non-void element with at least one declared child
\* renders as indent <tag attrs> nl (children joined by nl) nl indent </tag>,
\* whatever the children render to, children rendering empty included.
C1_JoinedChildren ==
    (Plain(call) /\ call.tag \notin VoidSet /\ HasChildren(call)) =>
        result = RootPad(call) \o OpenTag(call) \o Sep(RootM(call))
                 \o Join(RootChildren(call), Sep(RootM(call)))
                 \o Sep(RootM(call)) \o RootPad(call) \o CloseTag(call)

(* ------------------------------ C2 ------------------------------------- *)

\* C2: an element whose tag is one of the thirteen void tags renders as
\* exactly indent <tag attrs>, with no closing tag and nothing of its
\* children, in every mode and at every depth; every other tag is rendered
\* with its closing tag.
C2_VoidTags ==
    Plain(call) =>
        /\ call.tag \in VoidSet =>
             /\ result = RootPad(call) \o OpenTag(call)
             /\ ~Occurs(<<"<", "/">>, result)
        /\ call.tag \notin VoidSet =>
             /\ IsSuffix(CloseTag(call), result)
             /\ result # RootPad(call) \o OpenTag(call)

\* a void tag invoked with attributes and children
C2_Witness ==
    /\ call.op = "rsx_muncher"
    /\ call.tag = <<"w", "b", "r">>
    /\ call.m = 4 /\ call.d = 2
    /\ call.children # <<>> /\ call.rest # <<>>
    /\ result = Spaces(8) \o <<"<", "w", "b", "r", " ", "i", "d", ">">>

(* ------------------------------ C3 ------------------------------------- *)

\* C3: a non-void element with no children renders as its depth prefix
\* followed by <tag attrs></tag>, with no newline, in every mode.
C3_EmptyElement ==
    (Plain(call) /\ call.tag \notin VoidSet /\ ~HasChildren(call)) =>
        /\ result = RootPad(call) \o OpenTag(call) \o CloseTag(call)
        /\ ~Occurs(<<NL>>, result)

\* `p { }` under btfy2, and an attribute-only element at depth 2
C3_Witness ==
    \/ /\ call = RsxCall("btfy2", FALSE, P, <<>>)
       /\ result = <<"<", "p", ">", "<", "/", "p", ">">>
    \/ /\ call.op = "rsx_muncher" /\ call.m = 2 /\ call.d = 2
       /\ call.tag = LI /\ call.attrs # <<>> /\ call.children = <<>>
       /\ call.rest = <<>>

(* ------------------------------ C4 ------------------------------------- *)

\* C4: an attribute whose rendered value is "true" is emitted as ' key'
\* alone and one whose rendered value is "false" is not emitted, whatever
\* the key, the keys starting with ':', '@', 'x-' and 'hx-' included.
C4_BooleanAttributes ==
    Plain(call) =>
        LET as == RootAttrs(call)
            text == Concat([i \in 1..Len(as) |->
                              IF IsBool(as[i]) THEN BoolFragment(as[i])
                              ELSE attr_push(as[i].tt, NoEnv)])
        IN IsPrefix(RootPad(call) \o <<"<">> \o call.tag \o text \o <<">">>,
                    result)

\* "x-a": true renders as a bare key
C4_Witness ==
    /\ call.op = "rsx"
    /\ call.content = <<Attr(Literal(<<"x", "-", "a">>), BoolV(TRUE))>>
    /\ IsPrefix(<<"<", "u", "l", " ", "x", "-", "a", ">">>, result)

(* ------------------------------ C5 ------------------------------------- *)

NonEmpty(line) == line # <<>>

\* s cut at its newlines
RECURSIVE Lines(_)
Lines(s) ==
    IF ~Occurs(<<NL>>, s) THEN <<s>>
    ELSE LET i == CHOOSE i \in 1..Len(s) :
                    s[i] = NL /\ \A j \in 1..(i - 1) : s[j] # NL
         IN <<SubSeq(s, 1, i - 1)>> \o Lines(SubSeq(s, i + 1, Len(s)))

RECURSIVE ElemLines(_, _, _, _, _)
RECURSIVE KidLines(_, _, _, _)
RECURSIVE LoopLines(_, _, _, _, _)

\* the lines of an element by the indentation contract: the opening and
\* closing tag after width * d spaces, a text child after width * (d + 1)
\* spaces, a nested element and each loop body one level deeper
ElemLines(m, d, tag, body, env) ==
    LET as == DeclaredAttrs(body, env)
        open == <<"<">> \o tag
                \o Concat([i \in 1..Len(as) |-> Fragment(as[i])]) \o <<">">>
        close == <<"<", "/">> \o tag \o <<">">>
        kids == SelectSeq(KidLines(m, d, SelectSeq(body, IsChild), env),
                          NonEmpty)
    IN IF tag \in VoidSet THEN <<Pad(m, d) \o open>>
       ELSE IF kids = <<>> THEN <<Pad(m, d) \o open \o close>>
       ELSE <<Pad(m, d) \o open>> \o kids \o <<Pad(m, d) \o close>>

KidLines(m, d, kids, env) ==
    IF kids = <<>> THEN <<>>
    ELSE LET h == Head(kids)
             first ==
               CASE h.k = "lit" -> <<Pad(m, d + 1) \o h.text>>
                 [] h.k = "expr" ->
                      <<Pad(m, d + 1) \o Display(Eval(h.e, env))>>
                 [] h.k = "elem" -> ElemLines(m, d + 1, h.tag, h.body, env)
                 [] h.k = "for" -> LoopLines(m, d + 1, h.it, h.ic, h.coll)
         IN first \o KidLines(m, d, Tail(kids), env)

LoopLines(m, d, it, ic, coll) ==
    IF coll = <<>> THEN <<>>
    ELSE ElemLines(m, d, it, ic, Head(coll))
         \o LoopLines(m, d, it, ic, Tail(coll))

\* the lines of the root element of an invocation
RootLines(c) ==
    LET m == RootM(c)
        d == RootD(c)
        kids == SelectSeq((IF c.op = "rsx" THEN <<>> ELSE c.children)
                          \o KidLines(m, d, SelectSeq(RootBody(c), IsChild),
                                      NoEnv),
                          NonEmpty)
    IN IF c.tag \in VoidSet THEN <<Pad(m, d) \o OpenTag(c)>>
       ELSE IF kids = <<>> THEN <<Pad(m, d) \o OpenTag(c) \o CloseTag(c)>>
       ELSE <<Pad(m, d) \o OpenTag(c)>> \o kids \o <<Pad(m, d) \o CloseTag(c)>>

IsLoop(item) == item.k = "for"

HasLoop(body) == \E i \in 1..Len(body) : IsLoop(body[i])

\* an expression with the loop variable replaced by the value v
SubstV(e, v) == IF e.t = "var" THEN v ELSE e

\* a loop body with the loop variable replaced by the value v
RECURSIVE SubstBody(_, _)
SubstBody(body, v) ==
    IF body = <<>> THEN <<>>
    ELSE LET h == Head(body)
             first ==
               CASE h.k = "attr" -> Attr(h.name, SubstV(h.value, v))
                 [] h.k = "expr" -> Braced(SubstV(h.e, v))
                 [] h.k = "elem" -> Elem(h.tag, SubstBody(h.body, v))
                 [] OTHER -> h
         IN <<first>> \o SubstBody(Tail(body), v)

\* one copy of the body element per value, in sequence order
Copies(loop) ==
    [i \in 1..Len(loop.coll) |->
       Elem(loop.it, SubstBody(loop.ic, loop.coll[i]))]

\* a body with each of its loops replaced, in place, by the copies
RECURSIVE Unroll(_)
Unroll(body) ==
    IF body = <<>> THEN <<>>
    ELSE (IF IsLoop(Head(body)) THEN Copies(Head(body)) ELSE <<Head(body)>>)
         \o Unroll(Tail(body))

\* what rsx! evaluates to
Render(style, doctype, tag, content) ==
    IF doctype THEN rsx_doctype(style, tag, content)
    ELSE rsx(style, tag, content)

\* the same invocation with its loops replaced by the copies
Unrolled(c) == Render(c.style, c.doctype, c.tag, Unroll(c.content))

LoopAt(body) == CHOOSE i \in 1..Len(body) : IsLoop(body[i])

\* C7 (as stated): for a sequence of any length, an element with a loop
\* renders byte-identically to the element with the loop replaced by one
\* copy of the body element per value.
C7_LoopIsUnrolled ==
    (call.op = "rsx" /\ HasLoop(call.content)) => result = Unrolled(call)

\* C7 (amended): for every non-empty sequence, an element with a loop
\* over it renders byte-identically to the element with the loop replaced,
\* in place, by one copy of the body element per value in sequence order.
C7_NonEmptyLoopIsUnrolled ==
    (call.op = "rsx" /\ HasLoop(call.content)
       /\ call.content[LoopAt(call.content)].coll # <<>>) =>
        result = Unrolled(call)

\* a loop over two values between two text children, not in lined mode
C7_Witness ==
    /\ call.op = "rsx" /\ call.style = "btfy2"
    /\ Len(call.content) = 3
    /\ IsLoop(call.content[2])
    /\ Len(call.content[2].coll) = 2
    /\ call.content[1] = LitA /\ call.content[3] = LitA
    /\ result = Unrolled(call)

(* ------------------------------ C8 ------------------------------------- *)

\* C8: the attribute fragments of an element are in its opening tag in
\* declared order, wherever in the body they were declared, every
\* occurrence of a duplicate key emitted; the children follow in declared
\* order, a loop's output at the loop's position.
C8_DeclaredOrder ==
    Plain(call) =>
        LET m == RootM(call)
            inner == inner_content(<<>>, RootChildren(call), m)
            head == RootPad(call) \o OpenTag(call)
        IN IF call.tag \in VoidSet THEN result = head
           ELSE IF inner = <<>> THEN result = head \o CloseTag(call)
           ELSE result = head \o Sep(m) \o inner \o Sep(m) \o RootPad(call)
                         \o CloseTag(call)

\* id: "w" declared before a child and id: "v" after it
C8_Witness ==
    /\ call = RsxCall("lined", FALSE, UL, <<AttrW, LitA, AttrV>>)
    /\ result = <<"<", "u", "l", " ", "i", "d", "=", DQ, "w", DQ, " ", "i",
                  "d", "=", DQ, "v", DQ, ">", "a", "<", "/", "u", "l", ">">>

(* ------------------------------ C9 ------------------------------------- *)

NotNL(ch) == ch # NL

StripNL(s) == SelectSeq(s, NotNL)

\* C9: the lined and the btfy0 output of a tree are the same once every
\* newline is removed; btfy0 adds newlines only, lined adds nothing.
C9_LinedVsBtfy0 ==
    /\ (call.op = "rsx" /\ call.style = "lined") =>
         /\ StripNL(result)
              = StripNL(Render("btfy0", call.doctype, call.tag, call.content))
         /\ ~call.doctype => ~Occurs(<<NL>>, result)
    /\ (call.op = "rsx" /\ call.style = "btfy0") =>
         StripNL(result)
           = StripNL(Render("lined", call.doctype, call.tag, call.content))

\* a btfy0 output with newlines, of a tree with nested elements
C9_Witness ==
    /\ call.op = "rsx" /\ call.style = "btfy0" /\ ~call.doctype
    /\ call.content = <<LitA, Mixed>>
    /\ Occurs(<<NL>>, result)
    /\ ~Occurs(<<SP, SP>>, result)

(* ------------------------------ C10 ------------------------------------ *)

DoctypeLine ==
    <<"<", "!", "D", "O", "C", "T", "Y", "P", "E", SP, "h", "t", "m", "l",
      ">", NL>>

\* C10: with doctype_html the output is '<!DOCTYPE html>', one newline, and
\* the output of the same root element in the same mode without the
\* modifier, in every mode, lined included.
C10_Doctype ==
    (call.op = "rsx" /\ call.doctype) =>
        result = DoctypeLine \o rsx(call.style, call.tag, call.content)

\* doctype_html in lined mode, where nothing else adds a newline
C10_Witness ==
    /\ call.op = "rsx" /\ call.doctype /\ call.style = "lined"
    /\ call.content = <<Mixed>>
    /\ IsPrefix(DoctypeLine \o <<"<", "u", "l", ">">>, result)

(* ------------------------------ C11 ------------------------------------ *)

\* C11: get_char(s, n) is the empty string when n is 0 or n is greater than
\* the number of characters of s, otherwise the one-character string of
\* the n-th character of s counted from 1; it never fails.
C11_GetChar ==
    call.op = "get_char" =>
        /\ result # Panic
        /\ IF call.index = 0 \/ call.index > Len(call.written)
           THEN result = <<>>
           ELSE /\ result = str_of(<<call.written[call.index]>>)
                /\ Len(chars(result)) = 1
        /\ call.s = DocString =>
             /\ call.index = 1 => result = <<72>>
             /\ call.index \in {0, 50} => result = <<>>

\* the third and last character of a string of nine bytes
C11_Witness ==
    /\ call.op = "get_char"
    /\ call.written = <<127822, 233, 8364>>
    /\ call.index = 3
    /\ result = <<226, 130, 172>>

====
